---- MODULE Spec2Model ----
(***************************************************************************)
(* Model of weather_app.py: the advisory classifiers, the alert rules, the *)
(* daily forecast aggregation, the unit mapping of the renderers and the   *)
(* path of main that hands the current temperature to the clothing advice. *)
(*                                                                         *)
(* Temperatures, wind speeds and UV indices are floats in the program; the *)
(* model keeps them as integers counted in tenths (Deg(n) is n whole       *)
(* units), so that values strictly between two thresholds exist.           *)
(* The advice strings and alert messages are kept without their emoji      *)
(* prefix, the temperature symbols without their degree sign.              *)
(***************************************************************************)
EXTENDS Integers, Sequences, FiniteSets, TLC

VARIABLES
    fn, args, ret,                  \* the pure function last called, its arguments, <<value>> once returned
    forecast_list, tz,              \* forecast_data['list'] and the local UTC offset of the process
    daily_data, cards, phase, fault,\* render_daily_forecast: buckets, emitted day cards, position, exception raised
    session_units, celsius,         \* main: st.session_state['units'], the physical temperature outside
    main_data,                      \* main: current_data, the provider's answer
    current_page, pc,               \* main: what render_current_weather showed, position
    favorites,                      \* st.session_state['favorites']
    city, api_key,                  \* main: the search box (preset from selected_city) and the API key field
    wind_ms,                        \* the physical wind speed outside, in m/s
    main_forecast,                  \* main: forecast_data, the provider's answer
    alerts_page,                    \* main: what render_alerts built and showed
    log                             \* main: the fetches, messages and sections of this run, in order

pure_vars == <<fn, args, ret>>
forecast_vars == <<forecast_list, tz, daily_data, cards, phase, fault>>
main_vars == <<session_units, celsius, main_data, current_page, pc,
               favorites, city, api_key, wind_ms, main_forecast, alerts_page, log>>
vars == <<fn, args, ret, forecast_list, tz, daily_data, cards, phase, fault,
          session_units, celsius, main_data, current_page, pc,
          favorites, city, api_key, wind_ms, main_forecast, alerts_page, log>>

\* n whole units in tenths
Deg(n) == 10 * n

(***************************************************************************)
(* Bounds of the model                                                     *)
(***************************************************************************)
TempBelow == 3          \* coldest classified temperature: -TempBelow degrees
TempAbove == 27         \* warmest classified temperature
MaxAqi == 500           \* largest AQI value classified
MaxUv == 13             \* largest UV index classified

Temps == (0 - Deg(TempBelow))..Deg(TempAbove)
AqiValues == 0..MaxAqi
UvValues == 0..Deg(MaxUv)

\* the keys of WEATHER_ICONS, and one code outside it
WEATHER_ICONS == {"Clear", "Clouds", "Rain", "Drizzle", "Thunderstorm", "Snow", "Mist", "Fog", "Haze"}
Conditions == WEATHER_ICONS \cup {"Unknown"}
SomeConditions == {"Clear", "Snow", "Unknown"}

(***************************************************************************)
(* The advisory classifiers                                                *)
(***************************************************************************)
\* a variant: every comparison inclusive
get_clothing_suggestion_le(temp_c, condition) ==
    IF temp_c <= Deg(0) THEN "Heavy winter coat, gloves, scarf, and warm boots"
    ELSE IF temp_c <= Deg(10) THEN "Warm jacket, long sleeves, and closed shoes"
    ELSE IF temp_c <= Deg(15) THEN "Light jacket or sweater recommended"
    ELSE IF temp_c <= Deg(20) THEN "Long sleeves or light layers"
    ELSE IF temp_c <= Deg(25) THEN "Comfortable casual wear"
    ELSE "Light, breathable clothing. Stay hydrated!"

get_clothing_suggestion(temp_c, condition) ==
    IF temp_c < Deg(0) THEN "Heavy winter coat, gloves, scarf, and warm boots"
    ELSE IF temp_c < Deg(10) THEN "Warm jacket, long sleeves, and closed shoes"
    ELSE IF temp_c < Deg(15) THEN "Light jacket or sweater recommended"
    ELSE IF temp_c < Deg(20) THEN "Long sleeves or light layers"
    ELSE IF temp_c < Deg(25) THEN "Comfortable casual wear"
    ELSE "Light, breathable clothing. Stay hydrated!"

\* a variant: every comparison strict
get_aqi_info_lt(aqi) ==
    IF aqi < 50 THEN <<"Good", "#00e400">>
    ELSE IF aqi < 100 THEN <<"Moderate", "#ffff00">>
    ELSE IF aqi < 150 THEN <<"Unhealthy for Sensitive Groups", "#ff7e00">>
    ELSE IF aqi < 200 THEN <<"Unhealthy", "#ff0000">>
    ELSE IF aqi < 300 THEN <<"Very Unhealthy", "#8f3f97">>
    ELSE <<"Hazardous", "#7e0023">>

get_aqi_info(aqi) ==
    IF aqi <= 50 THEN <<"Good", "#00e400">>
    ELSE IF aqi <= 100 THEN <<"Moderate", "#ffff00">>
    ELSE IF aqi <= 150 THEN <<"Unhealthy for Sensitive Groups", "#ff7e00">>
    ELSE IF aqi <= 200 THEN <<"Unhealthy", "#ff0000">>
    ELSE IF aqi <= 300 THEN <<"Very Unhealthy", "#8f3f97">>
    ELSE <<"Hazardous", "#7e0023">>

\* a variant: every comparison inclusive
get_uv_info_le(uvi) ==
    IF uvi <= Deg(3) THEN <<"Low", "#3ea72d">>
    ELSE IF uvi <= Deg(6) THEN <<"Moderate", "#fff300">>
    ELSE IF uvi <= Deg(8) THEN <<"High", "#f18b00">>
    ELSE IF uvi <= Deg(11) THEN <<"Very High", "#e53210">>
    ELSE <<"Extreme", "#b567a4">>

get_uv_info(uvi) ==
    IF uvi < Deg(3) THEN <<"Low", "#3ea72d">>
    ELSE IF uvi < Deg(6) THEN <<"Moderate", "#fff300">>
    ELSE IF uvi < Deg(8) THEN <<"High", "#f18b00">>
    ELSE IF uvi < Deg(11) THEN <<"Very High", "#e53210">>
    ELSE <<"Extreme", "#b567a4">>

(***************************************************************************)
(* The parts of the state a specification does not use                     *)
(***************************************************************************)
IdlePure == fn = "none" /\ args = <<>> /\ ret = <<>>

IdleForecast ==
    /\ forecast_list = <<>>
    /\ tz = 0
    /\ daily_data = <<>>
    /\ cards = <<>>
    /\ phase = "idle"
    /\ fault = FALSE

\* OPENWEATHER_API_KEY, abridged, as its characters
OPENWEATHER_API_KEY == <<"c", "a", "1">>

\* the session state main sets up on the first run
InitialFavorites == <<"London", "New York", "Tokyo">>

IdleMain ==
    /\ session_units = "metric"
    /\ celsius = 0
    /\ main_data = <<>>
    /\ current_page = <<>>
    /\ pc = "idle"
    /\ favorites = InitialFavorites
    /\ city = ""
    /\ api_key = OPENWEATHER_API_KEY
    /\ wind_ms = 0
    /\ main_forecast = <<>>
    /\ alerts_page = <<>>
    /\ log = <<>>

(***************************************************************************)
(* Calls of the classifiers, with every argument of the bounded domains    *)
(***************************************************************************)
Call_get_clothing_suggestion ==
    \E temp_c \in Temps, condition \in SomeConditions :
        /\ fn' = "get_clothing_suggestion"
        /\ args' = <<temp_c, condition>>
        /\ ret' = <<get_clothing_suggestion(temp_c, condition)>>
        /\ UNCHANGED <<forecast_vars, main_vars>>

Call_get_aqi_info ==
    \E aqi \in AqiValues :
        /\ fn' = "get_aqi_info"
        /\ args' = <<aqi>>
        /\ ret' = <<get_aqi_info(aqi)>>
        /\ UNCHANGED <<forecast_vars, main_vars>>

Call_get_uv_info ==
    \E uvi \in UvValues :
        /\ fn' = "get_uv_info"
        /\ args' = <<uvi>>
        /\ ret' = <<get_uv_info(uvi)>>
        /\ UNCHANGED <<forecast_vars, main_vars>>

InitClassify == IdlePure /\ IdleForecast /\ IdleMain

NextClassify ==
    \/ Call_get_clothing_suggestion
    \/ Call_get_aqi_info
    \/ Call_get_uv_info

SpecClassify == InitClassify /\ [][NextClassify]_vars

(***************************************************************************)
(* C1-C3: the classifiers against their documented band tables             *)
(***************************************************************************)
AdviceTiers ==
    << "Heavy winter coat, gloves, scarf, and warm boots",
       "Warm jacket, long sleeves, and closed shoes",
       "Light jacket or sweater recommended",
       "Long sleeves or light layers",
       "Comfortable casual wear",
       "Light, breathable clothing. Stay hydrated!" >>

TierIndex(advice) == CHOOSE i \in 1..Len(AdviceTiers) : AdviceTiers[i] = advice

ClothingCalled == fn = "get_clothing_suggestion"

\* the advice returned is the one tier whose half-open range [low, high) holds t
C1_Table ==
    ClothingCalled =>
        LET t == args[1]
            advice == ret[1]
        IN  /\ \E i \in 1..6 : advice = AdviceTiers[i]
            /\ (advice = AdviceTiers[1]) <=> (t < Deg(0))
            /\ (advice = AdviceTiers[2]) <=> (Deg(0) <= t /\ t < Deg(10))
            /\ (advice = AdviceTiers[3]) <=> (Deg(10) <= t /\ t < Deg(15))
            /\ (advice = AdviceTiers[4]) <=> (Deg(15) <= t /\ t < Deg(20))
            /\ (advice = AdviceTiers[5]) <=> (Deg(20) <= t /\ t < Deg(25))
            /\ (advice = AdviceTiers[6]) <=> (Deg(25) <= t)

\* between two calls: a temperature at least as warm never gets a lower tier,
\* and the same temperature gets the same advice whatever the condition is
C1_Monotone ==
    (ClothingCalled /\ ClothingCalled') =>
        /\ (args[1] <= args'[1]) => (TierIndex(ret[1]) <= TierIndex(ret'[1]))
        /\ (args[1] = args'[1]) => (ret[1] = ret'[1])

\* C1: for every temperature t get_clothing_suggestion returns exactly one of
\* the six advice strings, the one of the tier t < 0, [0,10), [10,15), [15,20),
\* [20,25), >= 25 that holds t (so each boundary 0, 10, 15, 20, 25 lands in the
\* tier that starts at it); the condition never changes the result and the
\* tier index never decreases as t increases.
C1_ClothingTiers == []C1_Table /\ [][C1_Monotone]_vars

\* the boundary 10.0 classified into the tier that starts at it, under a
\* condition other than the default
C1_Witness ==
    /\ ClothingCalled
    /\ args = <<Deg(10), "Snow">>
    /\ ret = <<AdviceTiers[3]>>

AqiBands ==
    << <<"Good", "#00e400">>,
       <<"Moderate", "#ffff00">>,
       <<"Unhealthy for Sensitive Groups", "#ff7e00">>,
       <<"Unhealthy", "#ff0000">>,
       <<"Very Unhealthy", "#8f3f97">>,
       <<"Hazardous", "#7e0023">> >>

\* C2: for every AQI value a in 0..500 get_aqi_info returns exactly one of the
\* six (label, color) bands, with every upper boundary inclusive in the lower
\* band: a <= 50 Good, (50,100] Moderate, (100,150] Unhealthy for Sensitive
\* Groups, (150,200] Unhealthy, (200,300] Very Unhealthy, a > 300 Hazardous;
\* the label decides the color.
C2_AqiBands ==
    (fn = "get_aqi_info" /\ args[1] \in 0..500) =>
        LET a == args[1]
            info == ret[1]
        IN  /\ \E i \in 1..6 : info = AqiBands[i]
            /\ \A i \in 1..6 : info[1] = AqiBands[i][1] => info[2] = AqiBands[i][2]
            /\ (info[1] = "Good") <=> (a <= 50)
            /\ (info[1] = "Moderate") <=> (50 < a /\ a <= 100)
            /\ (info[1] = "Unhealthy for Sensitive Groups") <=> (100 < a /\ a <= 150)
            /\ (info[1] = "Unhealthy") <=> (150 < a /\ a <= 200)
            /\ (info[1] = "Very Unhealthy") <=> (200 < a /\ a <= 300)
            /\ (info[1] = "Hazardous") <=> (300 < a)

\* the boundary 300 still in the lower band
C2_Witness ==
    /\ fn = "get_aqi_info"
    /\ args = <<300>>
    /\ ret = << <<"Very Unhealthy", "#8f3f97">> >>

UvBands ==
    << <<"Low", "#3ea72d">>,
       <<"Moderate", "#fff300">>,
       <<"High", "#f18b00">>,
       <<"Very High", "#e53210">>,
       <<"Extreme", "#b567a4">> >>

\* C3: for every UV index u >= 0 get_uv_info returns exactly one of the five
\* (label, color) bands, every upper boundary exclusive: u < 3 Low, [3,6)
\* Moderate, [6,8) High, [8,11) Very High, u >= 11 Extreme; so 3, 6, 8 and 11
\* are Moderate, High, Very High and Extreme.
C3_UvBands ==
    (fn = "get_uv_info" /\ args[1] >= 0) =>
        LET u == args[1]
            info == ret[1]
        IN  /\ \E i \in 1..5 : info = UvBands[i]
            /\ (info = UvBands[1]) <=> (u < Deg(3))
            /\ (info = UvBands[2]) <=> (Deg(3) <= u /\ u < Deg(6))
            /\ (info = UvBands[3]) <=> (Deg(6) <= u /\ u < Deg(8))
            /\ (info = UvBands[4]) <=> (Deg(8) <= u /\ u < Deg(11))
            /\ (info = UvBands[5]) <=> (Deg(11) <= u)
            /\ (u = Deg(3)) => info[1] = "Moderate"
            /\ (u = Deg(6)) => info[1] = "High"
            /\ (u = Deg(8)) => info[1] = "Very High"
            /\ (u = Deg(11)) => info[1] = "Extreme"

\* the boundary 11.0 classified Extreme
C3_Witness ==
    /\ fn = "get_uv_info"
    /\ args = <<Deg(11)>>
    /\ ret = << <<"Extreme", "#b567a4">> >>

(***************************************************************************)
(* render_alerts                                                           *)
(***************************************************************************)
AlertBelow == 6         \* coldest snapshot temperature: -AlertBelow degrees
AlertAbove == 37        \* warmest snapshot temperature
MaxWind == 13           \* strongest snapshot wind speed

\* snapshot readings in steps of half a unit
HalfSteps(lo, hi) == {5 * k : k \in (2 * lo)..(2 * hi)}
AlertTemps == HalfSteps(0 - AlertBelow, AlertAbove)
AlertWinds == HalfSteps(0, MaxWind)

\* the fields of the provider's current-weather answer that render_alerts reads
Snapshot(temp, wind_speed, condition) ==
    [main |-> [temp |-> temp],
     wind |-> [speed |-> wind_speed],
     weather |-> <<[main |-> condition]>>]

\* how the page shows the list: a header, then st.error or st.warning per alert
show_alerts(alerts) ==
    IF alerts = <<>> THEN <<>>
    ELSE <<<<"markdown", "Active Alerts">>>> \o
         [i \in 1..Len(alerts) |->
            IF alerts[i][2] = "error" THEN <<"error", alerts[i][1]>>
            ELSE <<"warning", alerts[i][1]>>]

\* a variant: the rules chained with elif
render_alerts_elif(current_data) ==
    LET temp == current_data.main.temp
        wind_speed == current_data.wind.speed
        condition == current_data.weather[1].main
        alerts ==
            IF temp < Deg(0) THEN << <<"Freezing Temperature", "warning">> >>
            ELSE IF temp > Deg(35) THEN << <<"Extreme Heat Warning", "error">> >>
            ELSE IF wind_speed > Deg(10) THEN << <<"High Wind Advisory", "warning">> >>
            ELSE IF condition \in {"Thunderstorm", "Snow"}
                 THEN << <<condition \o " Alert", "error">> >>
            ELSE <<>>
    IN  [alerts |-> alerts, page |-> show_alerts(alerts)]

render_alerts(current_data) ==
    LET temp == current_data.main.temp
        wind_speed == current_data.wind.speed
        condition == current_data.weather[1].main
        a0 == <<>>
        a1 == IF temp < Deg(0)
              THEN Append(a0, <<"Freezing Temperature", "warning">>) ELSE a0
        a2 == IF temp > Deg(35)
              THEN Append(a1, <<"Extreme Heat Warning", "error">>) ELSE a1
        a3 == IF wind_speed > Deg(10)
              THEN Append(a2, <<"High Wind Advisory", "warning">>) ELSE a2
        a4 == IF condition \in {"Thunderstorm", "Snow"}
              THEN Append(a3, <<condition \o " Alert", "error">>) ELSE a3
    IN  [alerts |-> a4, page |-> show_alerts(a4)]

Call_render_alerts ==
    /\ fn = "render_alerts"
    /\ ret = <<>>
    /\ ret' = <<render_alerts(args[1])>>
    /\ UNCHANGED <<fn, args, forecast_vars, main_vars>>

InitAlerts ==
    /\ fn = "render_alerts"
    /\ \E temp \in AlertTemps, wind_speed \in AlertWinds, condition \in Conditions :
           args = <<Snapshot(temp, wind_speed, condition)>>
    /\ ret = <<>>
    /\ IdleForecast
    /\ IdleMain

NextAlerts == Call_render_alerts

SpecAlerts == InitAlerts /\ [][NextAlerts]_vars

(***************************************************************************)
(* C4: the alert list is the subsequence of the four rules that hold       *)
(***************************************************************************)
RuleHolds(i, temp, wind_speed, condition) ==
    CASE i = 1 -> temp < Deg(0)
      [] i = 2 -> temp > Deg(35)
      [] i = 3 -> wind_speed > Deg(10)
      [] i = 4 -> condition = "Thunderstorm" \/ condition = "Snow"

RuleAlert(i, condition) ==
    CASE i = 1 -> <<"Freezing Temperature", "warning">>
      [] i = 2 -> <<"Extreme Heat Warning", "error">>
      [] i = 3 -> <<"High Wind Advisory", "warning">>
      [] i = 4 -> <<condition \o " Alert", "error">>

AlertsReturned == fn = "render_alerts" /\ ret # <<>>

\* C4: for every snapshot the alert list built by render_alerts holds the alert
\* of rule i exactly when rule i holds (freezing: temp < 0; heat: temp > 35;
\* wind: speed > 10; condition Thunderstorm or Snow), each rule on its own, at
\* most once and in the order of the rules; the snapshot (-5, 12, Snow) gives
\* freezing, high wind, Snow alert and no heat alert; a snapshot matching no
\* rule gives the empty list.
C4_AlertRules ==
    AlertsReturned =>
        LET temp == args[1].main.temp
            wind_speed == args[1].wind.speed
            condition == args[1].weather[1].main
            alerts == ret[1].alerts
            holding == {i \in 1..4 : RuleHolds(i, temp, wind_speed, condition)}
        IN  /\ Len(alerts) = Cardinality(holding)
            /\ \A i \in 1..4 :
                   (i \in holding) <=>
                       (\E j \in 1..Len(alerts) : alerts[j] = RuleAlert(i, condition))
            /\ \A j \in 1..Len(alerts), k \in 1..Len(alerts) :
                   j < k => \E i1 \in holding, i2 \in holding :
                                /\ i1 < i2
                                /\ alerts[j] = RuleAlert(i1, condition)
                                /\ alerts[k] = RuleAlert(i2, condition)
            /\ (temp = 0 - Deg(5) /\ wind_speed = Deg(12) /\ condition = "Snow") =>
                   alerts = << <<"Freezing Temperature", "warning">>,
                               <<"High Wind Advisory", "warning">>,
                               <<"Snow Alert", "error">> >>
            /\ (holding = {}) => alerts = <<>>

\* the snapshot of the documented example has been evaluated: three alerts
C4_Witness ==
    /\ AlertsReturned
    /\ args = <<Snapshot(0 - Deg(5), Deg(12), "Snow")>>
    /\ Len(ret[1].alerts) = 3

(***************************************************************************)
(* render_daily_forecast: calendar dates                                   *)
(***************************************************************************)
\* datetime.fromtimestamp(dt): days since 1970-01-01 in the local time zone,
\* which is offset seconds east of UTC
LocalDay(dt, offset) == (dt + offset) \div 86400

\* the proleptic Gregorian date <<year, month, day>> of a day number
CivilFromDays(days) ==
    LET z == days + 719468
        era == z \div 146097
        doe == z - era * 146097
        yoe == (doe - doe \div 1460 + doe \div 36524 - doe \div 146096) \div 365
        doy == doe - (365 * yoe + yoe \div 4 - yoe \div 100)
        mp == (5 * doy + 2) \div 153
        d == doy - (153 * mp + 2) \div 5 + 1
        m == IF mp < 10 THEN mp + 3 ELSE mp - 9
        y == yoe + era * 400 + (IF m <= 2 THEN 1 ELSE 0)
    IN  <<y, m, d>>

\* a number as width decimal digits, each a character code ('0' is 48)
RECURSIVE Digits(_, _)
Digits(n, width) ==
    IF width = 0 THEN <<>> ELSE Append(Digits(n \div 10, width - 1), 48 + (n % 10))

\* dt.strftime('%Y-%m-%d'): the string as its character codes ('-' is 45)
date_key(dt, offset) ==
    LET ymd == CivilFromDays(LocalDay(dt, offset))
    IN  Digits(ymd[1], 4) \o <<45>> \o Digits(ymd[2], 2) \o <<45>> \o Digits(ymd[3], 2)

\* Python's str < str: by character code at the first difference, a proper
\* prefix first
StrLess(a, b) ==
    \E i \in 1..(Len(b)) :
        /\ \A j \in 1..(i - 1) : j <= Len(a) /\ a[j] = b[j]
        /\ \/ i = Len(a) + 1
           \/ i <= Len(a) /\ a[i] < b[i]

\* a variant: the keys in descending order
RECURSIVE sorted_reverse(_)
sorted_reverse(keys) ==
    IF keys = {} THEN <<>>
    ELSE LET last == CHOOSE k \in keys : \A other \in keys : other = k \/ StrLess(other, k)
         IN  <<last>> \o sorted_reverse(keys \ {last})

\* sorted(daily_data.keys())
RECURSIVE sorted(_)
sorted(keys) ==
    IF keys = {} THEN <<>>
    ELSE LET first == CHOOSE k \in keys : \A other \in keys : k = other \/ StrLess(k, other)
         IN  <<first>> \o sorted(keys \ {first})

(***************************************************************************)
(* render_daily_forecast: the day buckets                                  *)
(***************************************************************************)
\* item.get('pop', 0), in hundredths
get_pop(item) == IF "pop" \in DOMAIN item THEN item.pop ELSE 0

\* a variant: a bucket created ahead of the loop
empty_daily_data_seeded ==
    (date_key(0, 0) :> [temps |-> <<>>, conditions |-> <<>>, rain_prob |-> <<>>,
                        humidity |-> <<>>, wind |-> <<>>, date |-> 0])

\* daily_data = {}
empty_daily_data == <<>>

\* one pass of the loop body over item
add_item(data, item, offset) ==
    LET key == date_key(item.dt, offset)
        day == IF key \notin DOMAIN data
               THEN [temps |-> <<>>, conditions |-> <<>>, rain_prob |-> <<>>,
                     humidity |-> <<>>, wind |-> <<>>, date |-> item.dt]
               ELSE data[key]
        filled == [day EXCEPT !.temps = Append(@, item.main.temp),
                              !.conditions = Append(@, item.weather[1].main),
                              !.rain_prob = Append(@, get_pop(item)),
                              !.humidity = Append(@, item.main.humidity),
                              !.wind = Append(@, item.wind.speed)]
    IN  [k \in DOMAIN data \cup {key} |-> IF k = key THEN filled ELSE data[k]]

\* for item in forecast_data['list']: ...
RECURSIVE group_by_day(_, _, _)
group_by_day(data, list, offset) ==
    IF list = <<>> THEN data
    ELSE group_by_day(add_item(data, Head(list), offset), Tail(list), offset)

(***************************************************************************)
(* render_daily_forecast: the day cards                                    *)
(***************************************************************************)
Range(seq) == {seq[i] : i \in 1..Len(seq)}

\* a variant: the first element taken for the largest
py_max_first(seq) == seq[1]

\* max(list) and min(list) of a non-empty list
py_max(seq) == CHOOSE x \in Range(seq) : \A y \in Range(seq) : y <= x

py_min(seq) == CHOOSE x \in Range(seq) : \A y \in Range(seq) : x <= y

RECURSIVE py_sum(_)
py_sum(seq) == IF seq = <<>> THEN 0 ELSE Head(seq) + py_sum(Tail(seq))

\* list.count(x)
count(seq, x) == Cardinality({i \in 1..Len(seq) : seq[i] = x})

\* the orders in which iterating set(conditions) can yield its elements: a
\* set of str iterates in hash order, and str hashes are salted per process
IterationOrders(S) ==
    {order \in [1..Cardinality(S) -> S] : \A i, j \in 1..Cardinality(S) : order[i] = order[j] => i = j}

\* max(iterable, key=...): the first element, in iteration order, whose key is
\* not exceeded
max_by_count(order, conditions) ==
    LET first == CHOOSE i \in 1..Len(order) :
                    /\ \A j \in 1..Len(order) : count(conditions, order[j]) <= count(conditions, order[i])
                    /\ \A j \in 1..(i - 1) : count(conditions, order[j]) < count(conditions, order[i])
    IN  order[first]

\* max(set(day['conditions']), key=day['conditions'].count), for every
\* iteration order of the set
dominant_conditions(conditions) ==
    {max_by_count(order, conditions) : order \in IterationOrders(Range(conditions))}

\* max(), min() and the division by len() raise on an empty list
day_raises(day) ==
    \/ day.conditions = <<>>
    \/ day.temps = <<>>
    \/ day.rain_prob = <<>>
    \/ day.wind = <<>>

\* what the six columns of one day show, before the values are formatted;
\* the mean wind is kept as the sum and the count it divides
day_card(day, condition) ==
    [date |-> day.date,
     condition |-> condition,
     high |-> py_max(day.temps),
     low |-> py_min(day.temps),
     rain |-> py_max(day.rain_prob),
     wind |-> <<py_sum(day.wind), Len(day.wind)>>]

\* the day rows of keys, one for every choice of dominant condition
RECURSIVE day_cards(_, _)
day_cards(data, keys) ==
    IF keys = <<>> THEN {<<>>}
    ELSE {<<day_card(data[Head(keys)], condition)>> \o rest :
             condition \in dominant_conditions(data[Head(keys)].conditions),
             rest \in day_cards(data, Tail(keys))}

\* [:7]
first7(keys) == SubSeq(keys, 1, IF Len(keys) < 7 THEN Len(keys) ELSE 7)

\* the keys shown before a day raises, and whether one does
shown_keys(data, keys) ==
    LET bad == {i \in 1..Len(keys) : day_raises(data[keys[i]])}
    IN  IF bad = {} THEN keys
        ELSE SubSeq(keys, 1, (CHOOSE i \in bad : \A j \in bad : i <= j) - 1)

RenderDailyForecast ==
    /\ phase = "fetched"
    /\ LET data == group_by_day(empty_daily_data, forecast_list, tz)
           keys == first7(sorted(DOMAIN data))
       IN  /\ daily_data' = data
           /\ fault' = (\E i \in 1..Len(keys) : day_raises(data[keys[i]]))
           /\ cards' \in day_cards(data, shown_keys(data, keys))
    /\ phase' = "rendered"
    /\ UNCHANGED <<forecast_list, tz, pure_vars, main_vars>>

(***************************************************************************)
(* The provider's forecast: samples appended one by one                    *)
(***************************************************************************)
MaxSamples == 8         \* longest forecast list of SpecDaily
MaxBucketSamples == 4   \* longest forecast list of SpecBucket

\* 2024-12-30 18:00 UTC, and 00:00 UTC of that day
BaseTime == 20087 * 86400 + 18 * 3600
DayStart == 20087 * 86400

\* UTC and UTC+05:30
TZOffsets == {0, 19800}

\* the fields of a forecast item that render_daily_forecast reads
Sample(dt, temp, condition, humidity, wind_speed) ==
    [dt |-> dt,
     main |-> [temp |-> temp, humidity |-> humidity],
     weather |-> <<[main |-> condition]>>,
     wind |-> [speed |-> wind_speed]]

WithPop(item, pop) == [k \in DOMAIN item \cup {"pop"} |-> IF k = "pop" THEN pop ELSE item[k]]

\* a sample whose readings tell its three-hour slot
SlotSample(dt) ==
    LET slot == (dt - DayStart) \div 10800
    IN  WithPop(Sample(dt, Deg(10) + slot, "Clouds", 60, 35), 20)

\* the next sample is three hours later, a day later or a day earlier
FetchSample ==
    /\ phase = "fetched"
    /\ Len(forecast_list) < MaxSamples
    /\ \E dt \in IF forecast_list = <<>> THEN {BaseTime}
                 ELSE {forecast_list[Len(forecast_list)].dt + step : step \in {10800, 86400, 0 - 86400}} :
           forecast_list' = Append(forecast_list, SlotSample(dt))
    /\ UNCHANGED <<tz, daily_data, cards, phase, fault, pure_vars, main_vars>>

\* readings of a sample: temperature, condition, whether the item has a
\* 'pop' entry, and its precipitation probability
Readings ==
    { <<Deg(12) + 5, "Clear", FALSE, 0>>,
      <<Deg(8), "Rain", TRUE, 80>>,
      <<Deg(12) + 5, "Snow", TRUE, 30>>,
      <<0 - Deg(1) - 5, "Rain", TRUE, 0>> }

\* the next sample is three hours or a day later, with any of the readings
FetchVaried ==
    /\ phase = "fetched"
    /\ Len(forecast_list) < MaxBucketSamples
    /\ \E dt \in IF forecast_list = <<>> THEN {DayStart}
                 ELSE {forecast_list[Len(forecast_list)].dt + step : step \in {10800, 86400}},
          r \in Readings :
           LET item == Sample(dt, r[1], r[2], 60, 35)
           IN  forecast_list' = Append(forecast_list, IF r[3] THEN WithPop(item, r[4]) ELSE item)
    /\ UNCHANGED <<tz, daily_data, cards, phase, fault, pure_vars, main_vars>>

InitForecast ==
    /\ forecast_list = <<>>
    /\ tz \in TZOffsets
    /\ daily_data = <<>>
    /\ cards = <<>>
    /\ phase = "fetched"
    /\ fault = FALSE
    /\ IdlePure
    /\ IdleMain

NextDaily == FetchSample \/ RenderDailyForecast

SpecDaily == InitForecast /\ [][NextDaily]_vars

NextBucket == FetchVaried \/ RenderDailyForecast

SpecBucket == InitForecast /\ [][NextBucket]_vars

(***************************************************************************)
(* C5-C8: the daily aggregation                                            *)
(***************************************************************************)
Rendered == phase = "rendered"

\* the local calendar days of the samples, and the samples of one day in
\* input order
DayOf(item) == LocalDay(item.dt, tz)

ForecastDays == {DayOf(forecast_list[i]) : i \in 1..Len(forecast_list)}

SamplesOn(day) == SelectSeq(forecast_list, LAMBDA item : DayOf(item) = day)

TempsOf(samples) == [i \in 1..Len(samples) |-> samples[i].main.temp]

ConditionsOf(samples) == [i \in 1..Len(samples) |-> samples[i].weather[1].main]

PopsOf(samples) == [i \in 1..Len(samples) |-> IF "pop" \in DOMAIN samples[i] THEN samples[i].pop ELSE 0]

IsLargest(x, seq) == (\E i \in 1..Len(seq) : seq[i] = x) /\ (\A i \in 1..Len(seq) : seq[i] <= x)

IsSmallest(x, seq) == (\E i \in 1..Len(seq) : seq[i] = x) /\ (\A i \in 1..Len(seq) : x <= seq[i])

\* the code that occurs most often, the earliest in input order among equals
FirstMostFrequent(conditions) ==
    conditions[CHOOSE i \in 1..Len(conditions) :
                  /\ \A j \in 1..Len(conditions) : count(conditions, conditions[j]) <= count(conditions, conditions[i])
                  /\ \A j \in 1..(i - 1) : count(conditions, conditions[j]) < count(conditions, conditions[i])]

\* C5: the dominant condition of each day is the condition code with the most
\* occurrences among that day's samples, and among codes tied for the most it
\* is the one that appears first in the day's input order.
C5_DominantFirstTied ==
    Rendered =>
        \A c \in 1..Len(cards) :
            cards[c].condition = FirstMostFrequent(ConditionsOf(SamplesOn(LocalDay(cards[c].date, tz))))

C8_EmptyForecast ==
    (Rendered /\ forecast_list = <<>>) =>
        /\ ~fault
        /\ DOMAIN daily_data = {}
        /\ cards = <<>>

\* the empty list has been rendered
C8_Witness ==
    /\ Rendered
    /\ forecast_list = <<>>
    /\ cards = <<>>

(***************************************************************************)
(* The unit labels of the renderers, and render_current_weather            *)
(***************************************************************************)
\* a variant: Fahrenheit only for 'imperial'
temp_unit_imperial(units) == IF units = "imperial" THEN "F" ELSE "C"

\* temp_unit and speed_unit of render_current_weather
temp_unit(units) == IF units = "metric" THEN "C" ELSE "F"

speed_unit(units) == IF units = "metric" THEN "m/s" ELSE "mph"

\* temp_unit of render_hourly_forecast and of render_daily_forecast
hourly_temp_unit(units) == IF units = "metric" THEN "C" ELSE "F"

daily_temp_unit(units) == IF units = "metric" THEN "C" ELSE "F"

\* what the current-weather section shows of temperature, wind and advice,
\* and the temperature it hands to get_clothing_suggestion
render_current_weather(data, units) ==
    LET temp == data.main.temp
        condition == data.weather[1].main
    IN  [temp |-> temp,
         temp_unit |-> temp_unit(units),
         wind |-> data.wind.speed,
         speed_unit |-> speed_unit(units),
         clothing_arg |-> temp,
         what_to_wear |-> get_clothing_suggestion(temp, condition)]

\* selector values: the two of the radio button and others a caller can pass
Selectors == {"metric", "imperial", "standard", "Metric", ""}

Renderers == {"render_current_weather", "render_hourly_forecast", "render_daily_forecast"}

Call_render_current_weather ==
    /\ fn = "render_current_weather"
    /\ ret = <<>>
    /\ ret' = <<render_current_weather(args[1], args[2])>>
    /\ UNCHANGED <<fn, args, forecast_vars, main_vars>>

\* of the two forecast renderers, the unit label alone
Units_render_hourly_forecast ==
    /\ fn = "render_hourly_forecast"
    /\ ret = <<>>
    /\ ret' = <<[temp_unit |-> hourly_temp_unit(args[2])]>>
    /\ UNCHANGED <<fn, args, forecast_vars, main_vars>>

Units_render_daily_forecast ==
    /\ fn = "render_daily_forecast"
    /\ ret = <<>>
    /\ ret' = <<[temp_unit |-> daily_temp_unit(args[2])]>>
    /\ UNCHANGED <<fn, args, forecast_vars, main_vars>>

InitUnits ==
    /\ fn \in Renderers
    /\ \E temp \in AlertTemps, units \in Selectors :
           args = <<Snapshot(temp, Deg(4), "Clear"), units>>
    /\ ret = <<>>
    /\ IdleForecast
    /\ IdleMain

NextUnits ==
    \/ Call_render_current_weather
    \/ Units_render_hourly_forecast
    \/ Units_render_daily_forecast

SpecUnits == InitUnits /\ [][NextUnits]_vars

(***************************************************************************)
(* C9: the unit mapping over all selector values                           *)
(***************************************************************************)
UnitsShown == fn \in Renderers /\ ret # <<>>

ShownSpeedUnit == IF fn = "render_current_weather" THEN ret[1].speed_unit ELSE "none"

\* C9 as claimed: 'metric' gives (C, m/s), 'imperial' gives (F, mph), and
\* every other selector value falls back to the metric units (C, m/s).
C9_FallbackMetric ==
    UnitsShown =>
        IF args[2] = "imperial"
        THEN ret[1].temp_unit = "F" /\ ShownSpeedUnit \in {"mph", "none"}
        ELSE ret[1].temp_unit = "C" /\ ShownSpeedUnit \in {"m/s", "none"}

\* C9 as amended: 'metric' gives (C, m/s), and every other selector value,
\* 'imperial' and the invalid ones alike, gives the imperial units (F, mph).
C9_FallbackImperial ==
    UnitsShown =>
        IF args[2] = "metric"
        THEN ret[1].temp_unit = "C" /\ ShownSpeedUnit \in {"m/s", "none"}
        ELSE ret[1].temp_unit = "F" /\ ShownSpeedUnit \in {"mph", "none"}

\* an invalid selector has been rendered with the imperial units
C9_Witness ==
    /\ fn = "render_current_weather"
    /\ ret # <<>>
    /\ args[2] = "standard"
    /\ ret[1].temp_unit = "F"
    /\ ret[1].speed_unit = "mph"

(***************************************************************************)
(* main: one run of the script, from the sidebar to the last tab           *)
(***************************************************************************)
\* the provider's temperature for the physical temperature celsius:
\* units=metric Celsius, units=imperial Fahrenheit, anything else Kelvin
provider_temp(c, units) ==
    IF units = "metric" THEN c
    ELSE IF units = "imperial" THEN (c * 9) \div 5 + 320
    ELSE c + 2731

\* the provider's wind speed for the physical speed w in m/s: miles per hour
\* under units=imperial (to the nearest tenth), m/s otherwise
provider_speed(w, units) ==
    IF units = "imperial" THEN (w * 223694 + 50000) \div 100000 ELSE w

\* get_current_weather: the decoded answer, or None (<<>>) on any error
get_current_weather(c, w, units) ==
    {<<>>, <<Snapshot(provider_temp(c, units), provider_speed(w, units), "Clear")>>}

\* get_forecast: the decoded answer, or None (<<>>) on any error
get_forecast(c, units) ==
    {<<>>, <<[list |-> <<WithPop(Sample(BaseTime, provider_temp(c, units), "Clear", 60, 35), 20)>>]>>}

\* str.strip(): leading and trailing whitespace removed
Whitespace == {" ", "\t", "\n"}

RECURSIVE lstrip(_)
lstrip(str) == IF str # <<>> /\ Head(str) \in Whitespace THEN lstrip(Tail(str)) ELSE str

RECURSIVE rstrip(_)
rstrip(str) ==
    IF str # <<>> /\ str[Len(str)] \in Whitespace THEN rstrip(SubSeq(str, 1, Len(str) - 1)) ELSE str

strip(str) == rstrip(lstrip(str))

\* a variant: only the empty key refused
api_key_missing_empty(key) == key = <<>>

\* not api_key or api_key.strip() == ""
api_key_missing(key) == key = <<>> \/ strip(key) = <<>>

\* what the user can put in the API key field and in the search box
ApiKeys == {<<>>, <<" ">>, <<" ", "\t">>, OPENWEATHER_API_KEY}

Cities == {"", "Paris"}

\* the physical weather of a run
MainWinds == {Deg(3), Deg(5), Deg(12)}

\* the radio button of the sidebar
Main_SelectUnits ==
    /\ pc = "sidebar"
    /\ session_units' \in {"metric", "imperial"}
    /\ pc' = "api_key"
    /\ UNCHANGED <<celsius, main_data, current_page, favorites, city, api_key, wind_ms,
                   main_forecast, alerts_page, log, pure_vars, forecast_vars>>

\* the API key field of the sidebar
Main_EnterApiKey ==
    /\ pc = "api_key"
    /\ api_key' \in ApiKeys
    /\ pc' = "search"
    /\ UNCHANGED <<session_units, celsius, main_data, current_page, favorites, city, wind_ms,
                   main_forecast, alerts_page, log, pure_vars, forecast_vars>>

\* the search box and its two buttons (a run sees at most one button
\* clicked), then the checks of the city and of the API key
Main_Search ==
    /\ pc = "search"
    /\ \E typed \in Cities \cup {city}, search_btn \in BOOLEAN, gps \in BOOLEAN :
           /\ ~(search_btn /\ gps)
           /\ city' = IF gps THEN "London" ELSE typed
           /\ IF ~(search_btn \/ city' # "")
              THEN log' = Append(log, "welcome") /\ pc' = "done"
              ELSE IF city' = ""
              THEN log' = Append(log, "warning: enter a city name") /\ pc' = "done"
              ELSE IF api_key_missing(api_key)
              THEN log' = Append(log, "error: enter your API key") /\ pc' = "done"
              ELSE log' = log /\ pc' = "fetch"
    /\ UNCHANGED <<session_units, celsius, main_data, current_page, favorites, api_key, wind_ms,
                   main_forecast, alerts_page, pure_vars, forecast_vars>>

\* the two fetches, and the return when there is no current data
Main_Fetch ==
    /\ pc = "fetch"
    /\ main_data' \in get_current_weather(celsius, wind_ms, session_units)
    /\ main_forecast' \in get_forecast(celsius, session_units)
    /\ IF main_data' = <<>>
       THEN /\ log' = log \o <<"get_current_weather", "get_forecast", "error: city not found">>
            /\ pc' = "done"
       ELSE /\ log' = log \o <<"get_current_weather", "get_forecast">>
            /\ pc' = "tab1"
    /\ UNCHANGED <<session_units, celsius, current_page, favorites, city, api_key, wind_ms,
                   alerts_page, pure_vars, forecast_vars>>

\* tab1
Main_RenderCurrent ==
    /\ pc = "tab1"
    /\ current_page' = <<render_current_weather(main_data[1], session_units)>>
    /\ log' = Append(log, "render_current_weather")
    /\ pc' = "tab2"
    /\ UNCHANGED <<session_units, celsius, main_data, favorites, city, api_key, wind_ms,
                   main_forecast, alerts_page, pure_vars, forecast_vars>>

\* tab2
Main_RenderForecast ==
    /\ pc = "tab2"
    /\ log' = IF main_forecast # <<>>
              THEN log \o <<"render_hourly_forecast", "render_daily_forecast">>
              ELSE Append(log, "error: forecast data unavailable")
    /\ pc' = "tab3"
    /\ UNCHANGED <<session_units, celsius, main_data, current_page, favorites, city, api_key,
                   wind_ms, main_forecast, alerts_page, pure_vars, forecast_vars>>

\* tab3
Main_RenderAdvanced ==
    /\ pc = "tab3"
    /\ log' = Append(log, "render_advanced_features")
    /\ pc' = "tab4"
    /\ UNCHANGED <<session_units, celsius, main_data, current_page, favorites, city, api_key,
                   wind_ms, main_forecast, alerts_page, pure_vars, forecast_vars>>

\* tab4
Main_RenderMap ==
    /\ pc = "tab4"
    /\ log' = Append(log, "render_weather_map")
    /\ pc' = "tab5"
    /\ UNCHANGED <<session_units, celsius, main_data, current_page, favorites, city, api_key,
                   wind_ms, main_forecast, alerts_page, pure_vars, forecast_vars>>

\* tab5
Main_RenderAlerts ==
    /\ pc = "tab5"
    /\ alerts_page' = <<render_alerts(main_data[1])>>
    /\ log' = Append(log, "render_alerts")
    /\ pc' = "done"
    /\ UNCHANGED <<session_units, celsius, main_data, current_page, favorites, city, api_key,
                   wind_ms, main_forecast, pure_vars, forecast_vars>>

InitMain ==
    /\ session_units = "metric"
    /\ celsius \in AlertTemps
    /\ wind_ms \in MainWinds
    /\ main_data = <<>>
    /\ main_forecast = <<>>
    /\ current_page = <<>>
    /\ alerts_page = <<>>
    /\ favorites = InitialFavorites
    /\ city = ""
    /\ api_key = OPENWEATHER_API_KEY
    /\ log = <<>>
    /\ pc = "sidebar"
    /\ IdlePure
    /\ IdleForecast

NextMain ==
    \/ Main_SelectUnits
    \/ Main_EnterApiKey
    \/ Main_Search
    \/ Main_Fetch
    \/ Main_RenderCurrent
    \/ Main_RenderForecast
    \/ Main_RenderAdvanced
    \/ Main_RenderMap
    \/ Main_RenderAlerts

SpecMain == InitMain /\ [][NextMain]_vars

(***************************************************************************)
(* C10: the clothing advice is computed from a Celsius temperature         *)
(***************************************************************************)
\* C10: whenever main has shown the clothing advice, the temperature handed to
\* get_clothing_suggestion is the Celsius temperature, also when imperial is
\* selected, so the advice is the tier of the physical temperature under both
\* unit settings.
C10_AdviceFromCelsius ==
    (current_page # <<>>) =>
        /\ current_page[1].clothing_arg = celsius
        /\ current_page[1].what_to_wear = get_clothing_suggestion(celsius, main_data[1].weather[1].main)

(***************************************************************************)
(* C11: the high-wind threshold of main's alerts                            *)
(***************************************************************************)
HighWindAdvisory == <<"High Wind Advisory", "warning">>

\* C11: under every unit setting the alerts section of main raises the
\* high-wind alert exactly when the wind outside is above 10 m/s: a speed the
\* provider reports in miles per hour is brought back to m/s before
\* render_alerts compares it with 10.
C11_WindThresholdMetres ==
    (alerts_page # <<>>) =>
        ((HighWindAdvisory \in Range(alerts_page[1].alerts)) <=> (wind_ms > Deg(10)))

(***************************************************************************)
(* C15: the stages of a run of main                                         *)
(***************************************************************************)
Fetches == {"get_current_weather", "get_forecast"}

ForecastSections == {"render_hourly_forecast", "render_daily_forecast"}

OtherSections ==
    {"render_current_weather", "render_advanced_features", "render_weather_map", "render_alerts"}

Sections == ForecastSections \cup OtherSections

\* a key that is empty or made of whitespace only
Blank(key) == \A i \in 1..Len(key) : key[i] \in Whitespace

\* C15: in every run of main the stages come in the order validate, fetch,
\* render: nothing is fetched when the city is empty or the API key is empty
\* or whitespace only; every fetch precedes every rendered section; no
\* section is rendered when the current-weather fetch returned no data; the
\* forecast renderers are called only when the forecast fetch returned data,
\* and a finished run with current data has rendered the other four sections
\* whether or not the forecast is there.
C15_ValidateFetchRender ==
    /\ \A i \in 1..Len(log) : log[i] \in Fetches => (city # "" /\ ~Blank(api_key))
    /\ \A i, j \in 1..Len(log) : (log[i] \in Fetches /\ log[j] \in Sections) => i < j
    /\ \A j \in 1..Len(log) :
           log[j] \in Sections => (main_data # <<>> /\ Fetches \subseteq Range(log))
    /\ \A j \in 1..Len(log) : log[j] \in ForecastSections => main_forecast # <<>>
    /\ (pc = "done" /\ main_data # <<>>) =>
           /\ OtherSections \subseteq Range(log)
           /\ (main_forecast # <<>>) => (ForecastSections \subseteq Range(log))

\* a finished run that had current data and no forecast
C15_Witness ==
    /\ pc = "done"
    /\ main_data # <<>>
    /\ main_forecast = <<>>
    /\ "error: forecast data unavailable" \in Range(log)
    /\ OtherSections \subseteq Range(log)
    /\ ForecastSections \cap Range(log) = {}

(***************************************************************************)
(* render_advanced_features: the day length                                *)
(***************************************************************************)
MaxSunSteps == 24       \* sunrise and sunset lie up to MaxSunSteps steps after SunBase

\* 2024-12-30 03:00 UTC, and a step of 1 h 15 min 13 s
SunBase == DayStart + 3 * 3600
SunStep == 75 * 60 + 13

SunTimes == {SunBase + SunStep * i : i \in 0..MaxSunSteps}

\* the UTC offsets of the local zone: standard time and daylight saving time
SunOffsets == {0, 3600}

\* a variant: the whole difference, as total_seconds() gives it
day_length_total(sunrise, sunset, rise_offset, set_offset) ==
    LET delta == (sunset + set_offset) - (sunrise + rise_offset)
    IN  [hours |-> delta \div 3600, minutes |-> (delta % 3600) \div 60]

\* sunset - sunrise of the two naive local datetimes is a timedelta, which
\* keeps days = floor(delta / 86400) and seconds = delta mod 86400; hours and
\* minutes are taken from its seconds alone
day_length(sunrise, sunset, rise_offset, set_offset) ==
    LET delta == (sunset + set_offset) - (sunrise + rise_offset)
        seconds == delta % 86400
    IN  [hours |-> seconds \div 3600, minutes |-> (seconds % 3600) \div 60]

Call_day_length ==
    /\ fn = "day_length"
    /\ ret = <<>>
    /\ ret' = <<day_length(args[1], args[2], args[3], args[4])>>
    /\ UNCHANGED <<fn, args, forecast_vars, main_vars>>

InitDayLength ==
    /\ fn = "day_length"
    /\ \E sunrise \in SunTimes, sunset \in SunTimes, rise_offset \in SunOffsets, set_offset \in SunOffsets :
           args = <<sunrise, sunset, rise_offset, set_offset>>
    /\ ret = <<>>
    /\ IdleForecast
    /\ IdleMain

NextDayLength == Call_day_length

SpecDayLength == InitDayLength /\ [][NextDayLength]_vars

(***************************************************************************)
(* C12: the day length shown for a pair of sunrise and sunset instants     *)
(***************************************************************************)
DayLengthReturned == fn = "day_length" /\ ret # <<>>

Abs(n) == IF n < 0 THEN 0 - n ELSE n

MoonDays == 400         \* the dates run over MoonDays days from MoonStart

\* 2024-01-01 as a day number
MoonStart == 54 * 365 + 13

\* a variant: a month counted as 12.3685, like a year
phase_idx_month_as_year(year, month, day) ==
    LET lunations == (year - 2000) * 123685 * 30 + month * 123685 * 30 + day * 10000
        moon_age == lunations % 8859000
    IN  ((moon_age * 8) \div 8859000) % 8

\* moon_age = ((year - 2000) * 12.3685 + month + day / 30.0) % 29.53 and
\* phase_idx = int(moon_age / 29.53 * 8) % 8, in units of 1/300000: the floats
\* are taken as exact, which differs from the program only on a date whose
\* moon_age falls exactly on a boundary between two phases (none in the range)
phase_idx(year, month, day) ==
    LET lunations == (year - 2000) * 123685 * 30 + month * 300000 + day * 10000
        moon_age == lunations % 8859000
    IN  ((moon_age * 8) \div 8859000) % 8

\* now = datetime.now() on local day number today
moon_phase(today) ==
    LET now == CivilFromDays(today)
    IN  phase_idx(now[1], now[2], now[3])

InitMoon ==
    /\ fn = "moon_phase"
    /\ \E today \in MoonStart..(MoonStart + MoonDays) : args = <<today>>
    /\ ret = <<>>
    /\ IdleForecast
    /\ IdleMain

Call_moon_phase ==
    /\ fn = "moon_phase"
    /\ ret = <<>>
    /\ ret' = <<moon_phase(args[1])>>
    /\ UNCHANGED <<fn, args, forecast_vars, main_vars>>

\* the page rendered again one synodic period later: 29 or 30 days
Later_moon_phase ==
    /\ fn = "moon_phase"
    /\ ret # <<>>
    /\ \E period \in {29, 30} :
           /\ args[1] + period <= MoonStart + MoonDays
           /\ args' = <<args[1] + period>>
    /\ ret' = <<moon_phase(args'[1])>>
    /\ UNCHANGED <<fn, forecast_vars, main_vars>>

NextMoon == Call_moon_phase \/ Later_moon_phase

SpecMoon == InitMoon /\ [][NextMoon]_vars

(***************************************************************************)
(* C13: the moon phase over one synodic period                             *)
(***************************************************************************)
MoonReturned == fn = "moon_phase" /\ ret # <<>>

\* C13: the phase index is always in 0..7, and a date one synodic period (29
\* or 30 calendar days) later has the same index or an adjacent one modulo 8.
\* (That the same date gives the same index is how a function behaves and is
\* not part of the formula.)
C13_MoonPhasePeriod ==
    /\ [](MoonReturned => ret[1] \in 0..7)
    /\ [][(MoonReturned /\ MoonReturned') =>
             (ret'[1] - ret[1]) % 8 \in {0, 1, 7}]_vars

\* a date whose phase index has been computed again one period later
C13_Witness ==
    /\ MoonReturned
    /\ args[1] - 30 >= MoonStart
    /\ ret[1] = (moon_phase(args[1] - 30) + 1) % 8

(***************************************************************************)
(* main: the favourites of the sidebar                                      *)
(***************************************************************************)
\* the names typed in the "Add City" field; an empty field is ""
FavNames == {"", "London", "New York", "Tokyo", "Paris", "Oslo"}

\* a variant: the name appended whether it is there or not
add_favorite_always(favs, new_fav) ==
    IF new_fav # "" THEN Append(favs, new_fav) ELSE favs

\* if st.button("Add") and new_fav: if new_fav not in favorites: append
add_favorite(favs, new_fav) ==
    IF new_fav # "" /\ new_fav \notin Range(favs) THEN Append(favs, new_fav) ELSE favs

\* list.remove(fav): the first entry equal to fav is taken out
remove(favs, fav) ==
    LET first == CHOOSE i \in 1..Len(favs) :
                     favs[i] = fav /\ \A j \in 1..(i - 1) : favs[j] # fav
    IN  SubSeq(favs, 1, first - 1) \o SubSeq(favs, first + 1, Len(favs))

\* the Add button
Fav_Add ==
    /\ pc = "favorites"
    /\ \E new_fav \in FavNames :
           /\ fn' = "add"
           /\ args' = <<new_fav>>
           /\ favorites' = add_favorite(favorites, new_fav)
    /\ UNCHANGED <<ret, city, session_units, celsius, main_data, current_page, pc, api_key,
                   wind_ms, main_forecast, alerts_page, log, forecast_vars>>

\* the delete button next to the entry at position idx
Fav_Delete ==
    /\ pc = "favorites"
    /\ \E idx \in 1..Len(favorites) :
           /\ fn' = "delete"
           /\ args' = <<idx>>
           /\ favorites' = remove(favorites, favorites[idx])
    /\ UNCHANGED <<ret, city, session_units, celsius, main_data, current_page, pc, api_key,
                   wind_ms, main_forecast, alerts_page, log, forecast_vars>>

\* a click on an entry: selected_city, the preset of the search box
Fav_Select ==
    /\ pc = "favorites"
    /\ \E idx \in 1..Len(favorites) :
           /\ fn' = "select"
           /\ args' = <<idx>>
           /\ city' = favorites[idx]
    /\ UNCHANGED <<ret, favorites, session_units, celsius, main_data, current_page, pc, api_key,
                   wind_ms, main_forecast, alerts_page, log, forecast_vars>>

InitFavorites ==
    /\ fn = "none"
    /\ args = <<>>
    /\ ret = <<>>
    /\ session_units = "metric"
    /\ celsius = 0
    /\ wind_ms = 0
    /\ main_data = <<>>
    /\ main_forecast = <<>>
    /\ current_page = <<>>
    /\ alerts_page = <<>>
    /\ favorites = InitialFavorites
    /\ city = ""
    /\ api_key = OPENWEATHER_API_KEY
    /\ log = <<>>
    /\ pc = "favorites"
    /\ IdleForecast

NextFavorites == Fav_Add \/ Fav_Delete \/ Fav_Select

SpecFavorites == InitFavorites /\ [][NextFavorites]_vars

NoDuplicates(favs) == \A i, j \in 1..Len(favs) : favs[i] = favs[j] => i = j

\* the list without its entry at position idx
Without(favs, idx) == SubSeq(favs, 1, idx - 1) \o SubSeq(favs, idx + 1, Len(favs))

\* C14: from ['London', 'New York', 'Tokyo'] the favourites never hold a name
\* twice, whatever is added or deleted; an Add of a name already there or of
\* an empty name leaves the list as it was; a delete takes out exactly the
\* clicked entry and keeps the order of the others.
C14_FavoritesNoDuplicates ==
    /\ [](NoDuplicates(favorites))
    /\ [][ /\ (fn' = "add" /\ (args'[1] = "" \/ args'[1] \in Range(favorites)))
                  => favorites' = favorites
           /\ (fn' = "add" /\ args'[1] # "" /\ args'[1] \notin Range(favorites))
                  => favorites' = Append(favorites, args'[1])
           /\ (fn' = "delete") => favorites' = Without(favorites, args'[1]) ]_vars

\* an Add of a name already there has acted on a list that has seen a delete
\* and an Add of a new name
C14_Witness ==
    /\ fn = "add"
    /\ args[1] \in Range(favorites)
    /\ "Paris" \in Range(favorites)
    /\ "London" \notin Range(favorites)
    /\ NoDuplicates(favorites)

====
